---- MODULE Spec2Model ----
(***************************************************************************)
(* nanoFiler (pynanofiler/main.py): the directory scan-and-cache core of   *)
(* NanoFilerApp.  The state is the application object's fields (cache,     *)
(* current_dir, is_focused, refresh_timer_id), the Tk event loop's pending *)
(* "after" timers and queued callbacks, the background threads started by  *)
(* async_get_dir, the listbox state that enables the navigation handlers,  *)
(* and the file system the scans read.                                     *)
(*                                                                         *)
(* Every handler of the Tk main loop is one atomic action (the main loop   *)
(* runs handlers to completion, one at a time).  A background thread is a  *)
(* sequence of statements, each one step, freely interleaved with the      *)
(* main loop and with the other threads.                                   *)
(*                                                                         *)
(* Left out, because they neither read nor write the state above: the      *)
(* file viewer (display_file and what it calls), the path entry's text,    *)
(* and update_status_bar with its own 200 ms timer, which only reads       *)
(* current_dir to render the status label.                                 *)
(***************************************************************************)
EXTENDS Integers, Sequences, FiniteSets, TLC

(* ---------------------------------------------------------------- bounds *)

\* async_get_dir calls (= background threads started) in one run.
MaxScans == 2

\* Time passes in steps that leave a pending timer this many milliseconds
\* from firing, and then due.
NearlyDueMs == 6000

\* Size of the pool of "after" identifiers of refresh timers.
MaxTimers == 3

\* Children of the scanned directory, when the directory is drawn freely.
MaxEntries == 2

(* ------------------------------------------------------ program constants *)

focused_refresh_ms == 10000

unfocused_refresh_ms == 90000

(* ------------------------------------------------------------ data model *)

\* Python's None.
None == [none |-> TRUE]

\* A path is the sequence of its components; os.path.join appends one.
join(path, name) == Append(path, name)

\* A directory entry's name is kept as splitext sees it: stem and extension.
entry_name(name) == name.stem \o name.ext

splitext(name) == <<name.stem, name.ext>>

\* str.lower on the extensions that occur in the modelled file system.
lower(ext) ==
  CASE ext = ".TXT" -> ".txt"
    [] ext = ".PNG" -> ".png"
    [] ext = ".Md"  -> ".md"
    [] OTHER        -> ext

text_extensions ==
  { ".txt", ".md", ".py", ".log", ".json", ".xml", ".csv", ".ini", ".css",
    ".html", ".js", ".yaml", ".yml", ".bat", ".cmd", ".sh", ".ps1", ".rtf",
    ".git" }

image_extensions ==
  { ".png", ".jpg", ".jpeg", ".bmp", ".gif", ".tiff", ".svg" }

get_mimetype(file_name) ==
  LET extension == lower(splitext(file_name)[2])
  IN  IF extension \in text_extensions THEN "text/plain"
      ELSE IF extension \in image_extensions THEN "image"
      ELSE "unknown"

\* time.ctime: seconds since the epoch rendered as text.
ctime(t) == <<"ctime", t>>

\* class File
File(path, metadata, size, mimetype, content) ==
  [path |-> path, metadata |-> metadata, size |-> size,
   content |-> content, mimetype |-> mimetype]

\* class Dir.  id is the object's identity: the number of the async_get_dir
\* call whose thread constructed it.
Dir(path, metadata, subdirs, files, id) ==
  [path |-> path, metadata |-> metadata, subdirs |-> subdirs,
   files |-> files, id |-> id]

\* Faulty variant: the index is not advanced, every element lands on key 0.
put_no_increment(d, v) == [i \in {0} |-> v]

\* d[len(d)] = v on a dict keyed 0..len(d)-1 (subdirs[subdir_idx] = ...).
put(d, v) ==
  LET n == Cardinality(DOMAIN d)
  IN  [i \in (DOMAIN d) \cup {n} |-> IF i \in DOMAIN d THEN d[i] ELSE v]

EmptyDict == [i \in {} |-> 0]

(***************************************************************************)
(* What the file system holds for one path when the program reads it:      *)
(*   isdir    os.path.exists(path) and os.path.isdir(path)                 *)
(*   error    the exception os.stat / os.scandir raises ("" for none)      *)
(*   entries  the children in os.scandir's iteration order, each           *)
(*            [name, kind, stat_error, size, birthtime, mtime] with kind   *)
(*            "dir" (is_dir()), "file" (is_file()) or "other" (neither)    *)
(***************************************************************************)
Listing(isdir, error, birthtime, mtime, entries) ==
  [isdir |-> isdir, error |-> error, birthtime |-> birthtime,
   mtime |-> mtime, entries |-> entries]

Entry(stem, ext, kind, stat_error, size) ==
  [name |-> [stem |-> stem, ext |-> ext], kind |-> kind,
   stat_error |-> stat_error, size |-> size, birthtime |-> 1, mtime |-> 2]

\* The for loop of scan_dir over the entries not yet visited.  The result
\* carries the exception text of the first entry.stat() that raised.
RECURSIVE scan_entries(_, _, _, _)
scan_entries(path, entries, subdirs, files) ==
  IF entries = <<>>
  THEN [error |-> "", subdirs |-> subdirs, files |-> files]
  ELSE LET entry == Head(entries)
       IN  IF entry.kind = "dir"
           THEN scan_entries(path, Tail(entries),
                             put(subdirs, entry_name(entry.name)), files)
           ELSE IF entry.kind = "file"
           THEN IF entry.stat_error # ""
                THEN [error |-> entry.stat_error,
                      subdirs |-> subdirs, files |-> files]
                ELSE scan_entries(path, Tail(entries), subdirs,
                       put(files,
                           File(join(path, entry_name(entry.name)),
                                [created |-> ctime(entry.birthtime),
                                 modified |-> ctime(entry.mtime)],
                                entry.size,
                                get_mimetype(entry.name),
                                "")))
           ELSE scan_entries(path, Tail(entries), subdirs, files)

\* Faulty variant: a failure is recorded by adding "error" to the metadata
\* of an empty directory.
scan_dir_error_beside_counts(path, listing, id) ==
  LET r == IF listing.error # ""
           THEN [error |-> listing.error, subdirs |-> EmptyDict,
                 files |-> EmptyDict]
           ELSE scan_entries(path, listing.entries, EmptyDict, EmptyDict)
  IN  IF r.error # ""
      THEN Dir(path,
               [count_subdirs |-> 0, count_files |-> 0,
                created |-> ctime(listing.birthtime),
                modified |-> ctime(listing.mtime),
                error |-> r.error],
               EmptyDict, EmptyDict, id)
      ELSE Dir(path,
               [count_subdirs |-> Cardinality(DOMAIN r.subdirs),
                count_files   |-> Cardinality(DOMAIN r.files),
                created       |-> ctime(listing.birthtime),
                modified      |-> ctime(listing.mtime)],
               r.subdirs, r.files, id)

\* Faulty variant: when a child's stat() raises, the lists collected so far
\* are returned with the error.
scan_dir_keeps_partial(path, listing, id) ==
  IF listing.error # ""
  THEN Dir(path, [error |-> listing.error], EmptyDict, EmptyDict, id)
  ELSE LET r == scan_entries(path, listing.entries, EmptyDict, EmptyDict)
       IN  IF r.error # ""
           THEN Dir(path, [error |-> r.error], r.subdirs, r.files, id)
           ELSE Dir(path,
                    [count_subdirs |-> Cardinality(DOMAIN r.subdirs),
                     count_files   |-> Cardinality(DOMAIN r.files),
                     created       |-> ctime(listing.birthtime),
                     modified      |-> ctime(listing.mtime)],
                    r.subdirs, r.files, id)

\* scan_dir(path) reading `listing`; id is the identity of the Dir it builds.
scan_dir(path, listing, id) ==
  IF listing.error # ""
  THEN Dir(path, [error |-> listing.error], EmptyDict, EmptyDict, id)
  ELSE LET r == scan_entries(path, listing.entries, EmptyDict, EmptyDict)
       IN  IF r.error # ""
           THEN Dir(path, [error |-> r.error], EmptyDict, EmptyDict, id)
           ELSE Dir(path,
                    [count_subdirs |-> Cardinality(DOMAIN r.subdirs),
                     count_files   |-> Cardinality(DOMAIN r.files),
                     created       |-> ctime(listing.birthtime),
                     modified      |-> ctime(listing.mtime)],
                    r.subdirs, r.files, id)

(* --------------------------------------------------- the modelled volume *)

\* One drive with one subdirectory and one file.
Root == <<"C:">>

Sub == <<"C:", "b">>

Paths == {Root, Sub}

Drives == {Root}

RootListing ==
  Listing(TRUE, "", 1, 2, << Entry("b", "", "dir", "", 0),
                             Entry("c", ".txt", "file", "", 10) >>)

\* b exists but may not be listed: os.scandir raises.
Locked == Listing(TRUE, "PermissionError", 1, 2, <<>>)

\* The volume the program browses.
Volume == [p \in Paths |-> IF p = Root THEN RootListing ELSE Locked]

(* ----------------------------------------------------------------- state *)

VARIABLES
  cache,             \* self.cache: path -> Dir, None where the key is absent
  current_dir,       \* self.current_dir: Dir or None
  is_focused,        \* self.is_focused
  refresh_timer_id,  \* self.refresh_timer_id: an "after" id, NoTimer for None
  timers,            \* the refresh timers pending in the Tk event loop
  req,               \* req[i]: the i-th async_get_dir call and its thread
  uiQueue,           \* callbacks queued with after(0, ...), oldest first
  last_write,        \* per path, the call whose thread wrote the cache last
  subdirs_state,     \* subdirs_listbox: "NORMAL" or "DISABLED"
  bound_dir,         \* the Dir bound to the listbox's <<ListboxSelect>>
  drives_state,      \* drives_listbox: "NORMAL" (bound) or "DISABLED"
  fs                 \* the file system: path -> Listing

vars ==
  << cache, current_dir, is_focused, refresh_timer_id, timers, req, uiQueue,
     last_write, subdirs_state, bound_dir, drives_state, fs >>

NoTimer == 0

TimerIds == 1 .. MaxTimers

\* Faulty variants of the thread functions.
scan_and_callback_after_first == << "scan_dir", "after", "cache_store" >>

scan_and_callback_no_after == << "scan_dir", "cache_store" >>

scan_and_update_cache_with_after == << "scan_dir", "cache_store", "after" >>

\* The statements of the two thread functions, one step each.
scan_and_callback == << "scan_dir", "cache_store", "after" >>

scan_and_update_cache == << "scan_dir", "cache_store" >>

Program(target) ==
  IF target = "scan_and_callback" THEN scan_and_callback
  ELSE scan_and_update_cache

\* threading.Thread(target=partial(target, path, callback)).start(), with
\* the handler that made the async_get_dir call and the number of times the
\* call itself has invoked the callback.
Thread(target, path, callback, caller, sync_calls) ==
  [target |-> target, path |-> path, callback |-> callback, pc |-> 1,
   dir_obj |-> None, caller |-> caller, sync_calls |-> sync_calls,
   queued_calls |-> 0]

Finished(r) == r.pc > Len(Program(r.target))

Stmt(r) == Program(r.target)[r.pc]

\* A pending timer: armed for `delay` ms by handler `by`, `remaining` ms left.
Timer(id, delay, by) ==
  [id |-> id, delay |-> delay, remaining |-> delay, by |-> by]

Init ==
  /\ cache = [p \in Paths |-> None]
  /\ current_dir = None
  /\ is_focused = TRUE
  /\ timers = {Timer(1, focused_refresh_ms, "__init__")}
  /\ refresh_timer_id = 1
  /\ req = <<>>
  /\ uiQueue = <<>>
  /\ last_write = [p \in Paths |-> 0]
  /\ subdirs_state = "DISABLED"
  /\ bound_dir = None
  /\ drives_state = "NORMAL"
  /\ fs = Volume

(* ------------------------------------------------------ the refresh timer *)

\* Faulty variant: arms the new timer without cancelling the stored handle.
schedule_live_refresh_no_cancel(pending, focused, by) ==
  LET delay == IF focused THEN focused_refresh_ms ELSE unfocused_refresh_ms
      free  == {i \in TimerIds :
                  i # refresh_timer_id /\ \A t \in pending : t.id # i}
  IN  /\ free # {}
      /\ LET id == CHOOSE i \in free : \A j \in free : i <= j
         IN  /\ timers' = pending \cup {Timer(id, delay, by)}
             /\ refresh_timer_id' = id

\* Faulty variant: the focus flag is not consulted, the delay is always the
\* focused one.
schedule_live_refresh_one_delay(pending, focused, by) ==
  LET kept  == IF refresh_timer_id # NoTimer
               THEN {t \in pending : t.id # refresh_timer_id}
               ELSE pending
      free  == {i \in TimerIds :
                  i # refresh_timer_id /\ \A t \in kept : t.id # i}
  IN  /\ free # {}
      /\ LET id == CHOOSE i \in free : \A j \in free : i <= j
         IN  /\ timers' = kept \cup {Timer(id, focused_refresh_ms, by)}
             /\ refresh_timer_id' = id

\* Faulty variant: the two intervals are taken the wrong way round.
schedule_live_refresh_swapped(pending, focused, by) ==
  LET kept  == IF refresh_timer_id # NoTimer
               THEN {t \in pending : t.id # refresh_timer_id}
               ELSE pending
      delay == IF focused THEN unfocused_refresh_ms ELSE focused_refresh_ms
      free  == {i \in TimerIds :
                  i # refresh_timer_id /\ \A t \in kept : t.id # i}
  IN  /\ free # {}
      /\ LET id == CHOOSE i \in free : \A j \in free : i <= j
         IN  /\ timers' = kept \cup {Timer(id, delay, by)}
             /\ refresh_timer_id' = id

\* schedule_live_refresh, run on the timers `pending` with focus `focused`.
schedule_live_refresh(pending, focused, by) ==
  LET kept  == IF refresh_timer_id # NoTimer
               THEN {t \in pending : t.id # refresh_timer_id}
               ELSE pending
      delay == IF focused THEN focused_refresh_ms ELSE unfocused_refresh_ms
      free  == {i \in TimerIds :
                  i # refresh_timer_id /\ \A t \in kept : t.id # i}
  IN  /\ free # {}
      /\ LET id == CHOOSE i \in free : \A j \in free : i <= j
         IN  /\ timers' = kept \cup {Timer(id, delay, by)}
             /\ refresh_timer_id' = id

\* update_ui_from_dir(dir_obj)
update_ui_from_dir(dir_obj) ==
  /\ current_dir' = dir_obj
  /\ bound_dir' = dir_obj
  /\ subdirs_state' = "NORMAL"

\* callback(dir_obj): update_ui_from_dir is the only callback ever passed.
Invoke(callback, dir_obj) ==
  callback = "update_ui_from_dir" /\ update_ui_from_dir(dir_obj)

\* Faulty variant: the cache is not consulted, every call scans afresh.
async_get_dir_always_scans(path, callback, caller, listbox_state) ==
  /\ Len(req) < MaxScans
  /\ req' = Append(req, Thread("scan_and_callback", path, callback, caller, 0))
  /\ subdirs_state' = listbox_state
  /\ UNCHANGED <<current_dir, bound_dir>>
  /\ UNCHANGED <<cache, uiQueue, last_write>>

\* Faulty variant: a call waits for the scans in flight before it starts
\* its own.
async_get_dir_waits(path, callback, caller, listbox_state) ==
  /\ Len(req) < MaxScans
  /\ \A i \in DOMAIN req : Finished(req[i])
  /\ IF cache[path] # None
     THEN /\ Invoke(callback, cache[path])
          /\ req' = Append(req, Thread("scan_and_update_cache", path,
                                       callback, caller, 1))
     ELSE /\ req' = Append(req, Thread("scan_and_callback", path,
                                       callback, caller, 0))
          /\ subdirs_state' = listbox_state
          /\ UNCHANGED <<current_dir, bound_dir>>
  /\ UNCHANGED <<cache, uiQueue, last_write>>

\* Faulty variant: a call that finds the path cached starts no thread.
async_get_dir_no_refresh(path, callback, caller, listbox_state) ==
  /\ Len(req) < MaxScans
  /\ IF cache[path] # None
     THEN /\ Invoke(callback, cache[path])
          /\ req' = req
     ELSE /\ req' = Append(req, Thread("scan_and_callback", path,
                                       callback, caller, 0))
          /\ subdirs_state' = listbox_state
          /\ UNCHANGED <<current_dir, bound_dir>>
  /\ UNCHANGED <<cache, uiQueue, last_write>>

\* async_get_dir(path, callback), called by handler `caller` with the listbox
\* in `listbox_state`.
async_get_dir(path, callback, caller, listbox_state) ==
  /\ Len(req) < MaxScans
  /\ IF cache[path] # None
     THEN /\ Invoke(callback, cache[path])
          /\ req' = Append(req, Thread("scan_and_update_cache", path,
                                       callback, caller, 1))
     ELSE /\ req' = Append(req, Thread("scan_and_callback", path,
                                       callback, caller, 0))
          /\ subdirs_state' = listbox_state
          /\ UNCHANGED <<current_dir, bound_dir>>
  /\ UNCHANGED <<cache, uiQueue, last_write>>

\* Faulty variant: the timer is re-armed only when a directory is displayed.
perform_live_refresh_rearm_if_displayed(pending) ==
  /\ IF current_dir # None /\ current_dir.path # <<>>
     THEN /\ async_get_dir(current_dir.path, "update_ui_from_dir",
                           "perform_live_refresh", subdirs_state)
          /\ schedule_live_refresh(pending, is_focused, "perform_live_refresh")
     ELSE /\ timers' = pending
          /\ UNCHANGED <<cache, uiQueue, last_write, req, current_dir,
                         bound_dir, subdirs_state, refresh_timer_id>>
  /\ UNCHANGED <<is_focused, drives_state, fs>>

\* Faulty variant: the fired timer is not replaced.
perform_live_refresh_no_rearm(pending) ==
  /\ IF current_dir # None /\ current_dir.path # <<>>
     THEN async_get_dir(current_dir.path, "update_ui_from_dir",
                        "perform_live_refresh", subdirs_state)
     ELSE UNCHANGED <<cache, uiQueue, last_write, req, current_dir,
                      bound_dir, subdirs_state>>
  /\ timers' = pending
  /\ UNCHANGED <<refresh_timer_id, is_focused, drives_state, fs>>

\* perform_live_refresh, the fired timer already taken off `pending`.
perform_live_refresh(pending) ==
  /\ IF current_dir # None /\ current_dir.path # <<>>
     THEN async_get_dir(current_dir.path, "update_ui_from_dir",
                        "perform_live_refresh", subdirs_state)
     ELSE UNCHANGED <<cache, uiQueue, last_write, req, current_dir,
                      bound_dir, subdirs_state>>
  /\ schedule_live_refresh(pending, is_focused, "perform_live_refresh")
  /\ UNCHANGED <<is_focused, drives_state, fs>>

TimerFire ==
  \E t \in timers :
    /\ t.remaining = 0
    /\ perform_live_refresh(timers \ {t})

on_focus_in ==
  /\ is_focused' = TRUE
  /\ schedule_live_refresh(timers, TRUE, "on_focus_in")
  /\ UNCHANGED <<cache, current_dir, req, uiQueue, last_write, subdirs_state,
                 bound_dir, drives_state, fs>>

on_focus_out ==
  /\ is_focused' = FALSE
  /\ schedule_live_refresh(timers, FALSE, "on_focus_out")
  /\ UNCHANGED <<cache, current_dir, req, uiQueue, last_write, subdirs_state,
                 bound_dir, drives_state, fs>>

\* Wall-clock time passes: as much as leaves timer t NearlyDueMs from firing
\* or, when it is that close already, as much as makes it due.  The same time
\* passes for every pending timer; a timer is due once nothing remains on it.
Tick ==
  \E t \in timers :
    /\ t.remaining > 0
    /\ LET left    == IF t.remaining > NearlyDueMs THEN NearlyDueMs ELSE 0
           elapsed == t.remaining - left
       IN  timers' = { [u EXCEPT !.remaining =
                          IF u.remaining > elapsed
                          THEN u.remaining - elapsed ELSE 0]
                       : u \in timers }
    /\ UNCHANGED <<cache, current_dir, is_focused, refresh_timer_id, req,
                   uiQueue, last_write, subdirs_state, bound_dir,
                   drives_state, fs>>

(* ----------------------------------------------------- background threads *)

ThreadScan(i) ==
  /\ ~Finished(req[i]) /\ Stmt(req[i]) = "scan_dir"
  /\ req' = [req EXCEPT ![i].dir_obj = scan_dir(req[i].path, fs[req[i].path], i),
                        ![i].pc = @ + 1]
  /\ UNCHANGED <<cache, current_dir, is_focused, refresh_timer_id, timers,
                 uiQueue, last_write, subdirs_state, bound_dir, drives_state,
                 fs>>

\* Faulty variant: self.cache.setdefault(path, dir_obj).
cache_store_if_absent(c, path, dir_obj) ==
  IF c[path] = None THEN [c EXCEPT ![path] = dir_obj] ELSE c

\* Faulty variant: an entry already present is updated field by field, in
\* place, instead of being replaced by the new Dir.
cache_store_in_place(c, path, dir_obj) ==
  IF c[path] = None
  THEN [c EXCEPT ![path] = dir_obj]
  ELSE [c EXCEPT ![path].metadata = dir_obj.metadata,
                 ![path].subdirs = dir_obj.subdirs,
                 ![path].files = dir_obj.files]

\* Faulty variant: the Dir of a failed scan is not cached.
cache_store_unless_error(c, path, dir_obj) ==
  IF "error" \in DOMAIN dir_obj.metadata THEN c
  ELSE [c EXCEPT ![path] = dir_obj]

\* self.cache[path] = dir_obj
cache_store(c, path, dir_obj) == [c EXCEPT ![path] = dir_obj]

ThreadStore(i) ==
  /\ ~Finished(req[i]) /\ Stmt(req[i]) = "cache_store"
  /\ cache' = cache_store(cache, req[i].path, req[i].dir_obj)
  /\ last_write' = [last_write EXCEPT ![req[i].path] = i]
  /\ req' = [req EXCEPT ![i].pc = @ + 1]
  /\ UNCHANGED <<current_dir, is_focused, refresh_timer_id, timers, uiQueue,
                 subdirs_state, bound_dir, drives_state, fs>>

\* Faulty variant: the thread runs the callback itself instead of queueing
\* it for the main loop.
ThreadPost_calls_back(i) ==
  /\ ~Finished(req[i]) /\ Stmt(req[i]) = "after"
  /\ Invoke(req[i].callback, req[i].dir_obj)
  /\ req' = [req EXCEPT ![i].pc = @ + 1, ![i].queued_calls = @ + 1]
  /\ UNCHANGED <<cache, is_focused, refresh_timer_id, timers, uiQueue,
                 last_write, drives_state, fs>>

\* self.after(0, lambda: callback(dir_obj))
ThreadPost(i) ==
  /\ ~Finished(req[i]) /\ Stmt(req[i]) = "after"
  /\ uiQueue' = Append(uiQueue, [call |-> i, callback |-> req[i].callback,
                                 dir_obj |-> req[i].dir_obj])
  /\ req' = [req EXCEPT ![i].pc = @ + 1]
  /\ UNCHANGED <<cache, current_dir, is_focused, refresh_timer_id, timers,
                 last_write, subdirs_state, bound_dir, drives_state, fs>>

\* Faulty variant: the delivered callback also restarts the refresh timer.
Deliver_rearms ==
  /\ uiQueue # <<>>
  /\ Invoke(Head(uiQueue).callback, Head(uiQueue).dir_obj)
  /\ uiQueue' = Tail(uiQueue)
  /\ req' = [req EXCEPT ![Head(uiQueue).call].queued_calls = @ + 1]
  /\ schedule_live_refresh(timers, is_focused, "update_ui_from_dir")
  /\ UNCHANGED <<cache, is_focused, last_write, drives_state, fs>>

\* The main loop runs the oldest queued lambda: callback(dir_obj).
Deliver ==
  /\ uiQueue # <<>>
  /\ Invoke(Head(uiQueue).callback, Head(uiQueue).dir_obj)
  /\ uiQueue' = Tail(uiQueue)
  /\ req' = [req EXCEPT ![Head(uiQueue).call].queued_calls = @ + 1]
  /\ UNCHANGED <<cache, is_focused, refresh_timer_id, timers, last_write,
                 drives_state, fs>>

(* ------------------------------------------------------------- navigation *)

on_drive_select(selected_drive) ==
  /\ drives_state = "NORMAL"
  /\ drives_state' = "DISABLED"
  /\ async_get_dir(selected_drive, "update_ui_from_dir", "on_drive_select",
                   "DISABLED")
  /\ UNCHANGED <<is_focused, refresh_timer_id, timers, fs>>

\* Selection of the "[DIR] " item at index selected_index.
on_item_select(selected_index) ==
  /\ subdirs_state = "NORMAL" /\ bound_dir # None
  /\ selected_index \in DOMAIN bound_dir.subdirs
  /\ LET new_path == join(bound_dir.path, bound_dir.subdirs[selected_index])
     IN  /\ new_path \in Paths
         /\ async_get_dir(new_path, "update_ui_from_dir", "on_item_select",
                       "DISABLED")
  /\ UNCHANGED <<is_focused, refresh_timer_id, timers, drives_state, fs>>

\* os.path.exists(path) and os.path.isdir(path)
isdir(path) == fs[path].isdir

browse_to_path(path) ==
  /\ isdir(path)
  /\ drives_state' = "DISABLED"
  /\ async_get_dir(path, "update_ui_from_dir", "browse_to_path", "DISABLED")
  /\ UNCHANGED <<is_focused, refresh_timer_id, timers, fs>>

\* Faulty variant: Clear also cancels the refresh timer.
clear_path_entry_cancels_timer ==
  /\ current_dir' = None
  /\ subdirs_state' = "DISABLED"
  /\ drives_state' = "NORMAL"
  /\ bound_dir' = None
  /\ timers' = {t \in timers : t.id # refresh_timer_id}
  /\ refresh_timer_id' = NoTimer
  /\ UNCHANGED <<cache, is_focused, req, uiQueue, last_write, fs>>

\* Faulty variant: Clear also empties the cache.
clear_path_entry_clears_cache ==
  /\ current_dir' = None
  /\ subdirs_state' = "DISABLED"
  /\ drives_state' = "NORMAL"
  /\ bound_dir' = None
  /\ cache' = [p \in Paths |-> None]
  /\ UNCHANGED <<is_focused, refresh_timer_id, timers, req, uiQueue,
                 last_write, fs>>

\* Faulty variant: Clear also discards the callbacks waiting in the queue.
clear_path_entry_drops_callbacks ==
  /\ current_dir' = None
  /\ subdirs_state' = "DISABLED"
  /\ drives_state' = "NORMAL"
  /\ bound_dir' = None
  /\ uiQueue' = <<>>
  /\ UNCHANGED <<cache, is_focused, refresh_timer_id, timers, req,
                 last_write, fs>>

clear_path_entry ==
  /\ current_dir' = None
  /\ subdirs_state' = "DISABLED"
  /\ drives_state' = "NORMAL"
  /\ bound_dir' = None
  /\ UNCHANGED <<cache, is_focused, refresh_timer_id, timers, req, uiQueue,
                 last_write, fs>>

Next ==
  \/ on_focus_in
  \/ on_focus_out
  \/ TimerFire
  \/ Tick
  \/ Deliver
  \/ clear_path_entry
  \/ \E d \in Drives : on_drive_select(d)
  \/ \E k \in 0 .. 1 : on_item_select(k)
  \/ \E p \in Paths : browse_to_path(p)
  \/ \E i \in DOMAIN req : ThreadScan(i)
  \/ \E i \in DOMAIN req : ThreadStore(i)
  \/ \E i \in DOMAIN req : ThreadPost(i)

Spec == Init /\ [][Next]_vars

(* -------------------------------------- one scan of an arbitrary directory *)

\* Names of the children by position in os.scandir's iteration order (a
\* directory holds no name twice).
Stems == << "e1", "e2", "e3", "e4", "e5", "e6" >>

\* What a child can be: a subdirectory, a text file, an image file whose
\* extension is in capitals, a file whose stat() raises, and an entry that
\* is neither directory nor file (a dangling symbolic link).
EntryKinds ==
  { [ext |-> "",     kind |-> "dir",   stat_error |-> "",                size |-> 0],
    [ext |-> ".txt", kind |-> "file",  stat_error |-> "",                size |-> 10],
    [ext |-> ".PNG", kind |-> "file",  stat_error |-> "",                size |-> 20],
    [ext |-> "",     kind |-> "file",  stat_error |-> "PermissionError", size |-> 0],
    [ext |-> "",     kind |-> "other", stat_error |-> "",                size |-> 0] }

\* The directories os.stat and os.scandir read without raising, with up to
\* MaxEntries children.
Readable ==
  UNION { { Listing(TRUE, "", 1, 2,
                    [k \in 1 .. n |-> Entry(Stems[k], f[k].ext, f[k].kind,
                                            f[k].stat_error, f[k].size)]) :
              f \in [1 .. n -> EntryKinds] } :
          n \in 0 .. MaxEntries }

\* The paths for which os.stat or os.scandir raises.
Unreadable ==
  { Listing(FALSE, "FileNotFoundError", 0, 0, <<>>),
    Listing(FALSE, "NotADirectoryError", 1, 2, <<>>),
    Listing(TRUE, "PermissionError", 1, 2, <<>>) }

\* As Init, with any readable or unreadable directory behind the drive.
InitScan ==
  /\ cache = [p \in Paths |-> None]
  /\ current_dir = None
  /\ is_focused = TRUE
  /\ timers = {Timer(1, focused_refresh_ms, "__init__")}
  /\ refresh_timer_id = 1
  /\ req = <<>>
  /\ uiQueue = <<>>
  /\ last_write = [p \in Paths |-> 0]
  /\ subdirs_state = "DISABLED"
  /\ bound_dir = None
  /\ drives_state = "NORMAL"
  /\ fs \in {[Volume EXCEPT ![Root] = l] : l \in Readable \cup Unreadable}

\* The drive is selected, scanned, cached and displayed.
NextScan ==
  \/ \E d \in Drives : on_drive_select(d)
  \/ \E i \in DOMAIN req : ThreadScan(i)
  \/ \E i \in DOMAIN req : ThreadStore(i)
  \/ \E i \in DOMAIN req : ThreadPost(i)
  \/ Deliver

SpecScan == InitScan /\ [][NextScan]_vars

(* ================================================================ claims *)

\* The callback of call i is waiting in the main loop's queue.
Queued(i) == \E k \in DOMAIN uiQueue : uiQueue[k].call = i

\* The thread of call i has executed its cache write.
Stored(i) ==
  \E k \in 1 .. Len(Program(req[i].target)) :
    k < req[i].pc /\ Program(req[i].target)[k] = "cache_store"

\* The interval schedule_live_refresh is to use under focus flag f.
IntervalFor(f) == IF f THEN focused_refresh_ms ELSE unfocused_refresh_ms

(***************************************************************************)
(* C1.  Every async_get_dir call invokes its callback at most once.  A     *)
(* call that found the path cached has invoked it exactly once, inside the *)
(* call, and its refresh thread never queues or invokes a callback.  A     *)
(* call that missed the cache has not invoked it inside the call; its      *)
(* callback is queued at most once, only by its own thread and only after  *)
(* that thread has finished scanning and storing, and it has run exactly   *)
(* once as soon as the thread has finished and the queue entry is gone.    *)
(***************************************************************************)
C1_CallbackOncePerCall ==
  \A i \in DOMAIN req :
    LET r == req[i]
        entries == {k \in DOMAIN uiQueue : uiQueue[k].call = i}
    IN  /\ r.sync_calls + r.queued_calls + Cardinality(entries) <= 1
        /\ r.target = "scan_and_update_cache" =>
             /\ r.sync_calls = 1
             /\ r.queued_calls = 0
             /\ entries = {}
        /\ r.target = "scan_and_callback" =>
             /\ r.sync_calls = 0
             /\ (r.queued_calls = 1 \/ entries # {}) <=> Finished(r)
             /\ entries # {} => Stored(i)

\* A cache miss whose callback was delivered, then a cache hit whose
\* refresh thread has run to its end.
C1_Witness ==
  \E i, j \in DOMAIN req :
    /\ req[i].target = "scan_and_callback" /\ req[i].queued_calls = 1
    /\ req[j].target = "scan_and_update_cache" /\ Finished(req[j])

(***************************************************************************)
(* C2.  The cache holds one snapshot per path, and it is the one written   *)
(* by the scan thread of that path that completed its cache write most     *)
(* recently: it carries that call's identity and is the whole result of    *)
(* scan_dir for that path; a path no thread has written is absent.  The    *)
(* order in which the calls were made plays no part.                       *)
(***************************************************************************)
C2_LastWriteWins ==
  \A p \in Paths :
    IF last_write[p] = 0
    THEN cache[p] = None /\ \A i \in DOMAIN req : req[i].path = p => ~Stored(i)
    ELSE /\ last_write[p] \in DOMAIN req
         /\ req[last_write[p]].path = p
         /\ Stored(last_write[p])
         /\ cache[p] = scan_dir(p, fs[p], last_write[p])

\* Two overlapping scans of one path: the one started first wrote last and
\* its snapshot is the entry.
C2_Witness ==
  \E p \in Paths :
    /\ Len(req) >= 2
    /\ req[1].path = p /\ req[2].path = p
    /\ Stored(1) /\ Stored(2)
    /\ cache[p] # None /\ cache[p].id = 1

(***************************************************************************)
(* C3.  At most one refresh timer is pending in the event loop, and it is  *)
(* the one whose handle is stored in refresh_timer_id: a timer whose       *)
(* handle has been superseded is no longer pending and cannot fire.        *)
(***************************************************************************)
C3_OnePendingTimer ==
  /\ Cardinality(timers) <= 1
  /\ \A t \in timers : t.id = refresh_timer_id

\* A focus event re-armed the timer: the timer it armed is the only one.
C3_Witness ==
  \E t \in timers :
    /\ t.by \in {"on_focus_in", "on_focus_out"}
    /\ timers = {t}
    /\ t.id # 1

\* This step is an async_get_dir call (it starts call number Len(req')).
IsCall == Len(req') = Len(req) + 1

\* This step is a statement of the thread of call i.
ThreadStepOf(i) == i \in DOMAIN req /\ req'[i].pc = req[i].pc + 1

(***************************************************************************)
(* C4.  A call for a path that is in the cache runs the callback inside    *)
(* the call, once, on exactly the Dir the cache holds for the path at that *)
(* moment; the call leaves the cache as it is and its refresh thread has   *)
(* not run a statement yet when the call returns.  When that thread later  *)
(* writes the cache, the entry becomes its own snapshot and no callback    *)
(* runs or is queued: the displayed directory stays as it was.             *)
(***************************************************************************)
C4_HitServesCachedSnapshot ==
  [][ /\ (IsCall /\ cache[req'[Len(req')].path] # None) =>
           LET call == req'[Len(req')]
           IN  /\ current_dir' = cache[call.path]
               /\ bound_dir' = cache[call.path]
               /\ call.sync_calls = 1
               /\ call.target = "scan_and_update_cache"
               /\ call.pc = 1
               /\ call.dir_obj = None
               /\ cache' = cache
               /\ uiQueue' = uiQueue
      /\ \A i \in DOMAIN req :
           (/\ ThreadStepOf(i)
            /\ req[i].sync_calls = 1
            /\ cache' # cache) =>
              /\ cache'[req[i].path].id = i
              /\ current_dir' = current_dir
              /\ uiQueue' = uiQueue
              /\ req'[i].queued_calls = 0
    ]_vars

\* A hit showed the snapshot of an earlier scan, and the refresh thread of
\* that call has since replaced the cache entry with its own.
C4_Witness ==
  \E i \in DOMAIN req :
    /\ req[i].sync_calls = 1
    /\ Finished(req[i])
    /\ cache[req[i].path].id = i
    /\ current_dir # None
    /\ current_dir.path = req[i].path
    /\ current_dir.id < i

(***************************************************************************)
(* C5.  On a miss the thread writes the cache before it queues the         *)
(* callback: every queued callback's path, and the path of every thread    *)
(* about to queue one, is in the cache, so it is in the cache when the     *)
(* main loop runs the callback.  A thread statement never changes what is  *)
(* displayed; the callback runs only as a step of the main loop, which     *)
(* takes it from the queue.                                                *)
(***************************************************************************)
C5_StoreBeforeCallback ==
  /\ [](/\ \A k \in DOMAIN uiQueue :
             /\ cache[uiQueue[k].dir_obj.path] # None
             /\ uiQueue[k].dir_obj.path = req[uiQueue[k].call].path
        /\ \A i \in DOMAIN req :
             (~Finished(req[i]) /\ Stmt(req[i]) = "after") =>
                cache[req[i].path] # None)
  /\ [][ /\ (\E i \in DOMAIN req : ThreadStepOf(i)) =>
              UNCHANGED <<current_dir, bound_dir, subdirs_state>>
         /\ \A i \in DOMAIN req :
              req'[i].queued_calls # req[i].queued_calls =>
                /\ uiQueue # <<>> /\ Head(uiQueue).call = i
                /\ uiQueue' = Tail(uiQueue)
                /\ current_dir' = Head(uiQueue).dir_obj
                /\ cache[current_dir'.path] # None
                /\ req' = [req EXCEPT ![i].queued_calls = @ + 1]
       ]_vars

\* The main loop has run the callback of a miss: its Dir is displayed.
C5_Witness ==
  \E i \in DOMAIN req :
    /\ req[i].target = "scan_and_callback"
    /\ req[i].queued_calls = 1
    /\ current_dir # None /\ current_dir.id = i
    /\ cache[req[i].path] # None

(***************************************************************************)
(* C6.  Two calls for the same path that both miss the cache each start    *)
(* their own scan thread; once both threads have finished and the queue    *)
(* holds neither callback, the callback has run twice, once per call; and  *)
(* once both have written the cache the entry is the snapshot of the one   *)
(* that wrote last (unless a later call's thread has written since).       *)
(***************************************************************************)
C6_OverlappingMisses ==
  \A i, j \in DOMAIN req :
    (/\ i < j
     /\ req[i].path = req[j].path
     /\ req[i].sync_calls = 0 /\ req[j].sync_calls = 0) =>
       LET p == req[i].path
       IN  /\ req[i].target = "scan_and_callback"
           /\ req[j].target = "scan_and_callback"
           /\ (Finished(req[i]) /\ Finished(req[j])
                 /\ ~Queued(i) /\ ~Queued(j)) =>
                req[i].queued_calls = 1 /\ req[j].queued_calls = 1
           /\ (Stored(i) /\ Stored(j) /\ last_write[p] \in {i, j}) =>
                /\ cache[p] # None
                /\ cache[p].id = last_write[p]
                /\ cache[p] = scan_dir(p, fs[p], last_write[p])

\* Both callbacks have run and the second call's scan finished first, so
\* the first call's snapshot is the entry.
C6_Witness ==
  \E i, j \in DOMAIN req :
    /\ i < j
    /\ req[i].path = req[j].path
    /\ req[i].queued_calls = 1 /\ req[j].queued_calls = 1
    /\ cache[req[i].path].id = i

(***************************************************************************)
(* C7.  The pending refresh timer was armed with the interval of the       *)
(* current focus flag: 10,000 ms when focused, 90,000 ms when not.  A      *)
(* focus-lost event leaves exactly one timer, 90,000 ms from firing, a     *)
(* focus-gained event exactly one, 10,000 ms from firing, and the timer    *)
(* that was pending before the event is gone.                              *)
(***************************************************************************)
C7_IntervalMatchesFocus ==
  /\ [](\A t \in timers :
          /\ t.delay = IF is_focused THEN 10000 ELSE 90000
          /\ t.remaining <= t.delay)
  /\ [][ /\ on_focus_out =>
              /\ ~is_focused'
              /\ \E t \in timers' : timers' = {t} /\ t.remaining = 90000
              /\ timers \cap timers' = {}
         /\ on_focus_in =>
              /\ is_focused'
              /\ \E t \in timers' : timers' = {t} /\ t.remaining = 10000
              /\ timers \cap timers' = {}
       ]_vars

\* Focus was lost and the timer armed by that event is still untouched.
C7_Witness ==
  /\ ~is_focused
  /\ \E t \in timers :
       t.by = "on_focus_out" /\ t.remaining = unfocused_refresh_ms

(***************************************************************************)
(* C8.  A timer fire with a directory displayed makes exactly one          *)
(* async_get_dir call, for the displayed directory's path and with         *)
(* update_ui_from_dir as callback; with none displayed it makes no call.   *)
(* Either way the same step re-arms the timer, a full interval of the      *)
(* current focus flag away, and leaves the focus flag alone.               *)
(***************************************************************************)
C8_TimerFire ==
  [][ TimerFire =>
        /\ IF current_dir # None
           THEN /\ IsCall
                /\ SubSeq(req', 1, Len(req)) = req
                /\ req'[Len(req')].path = current_dir.path
                /\ req'[Len(req')].callback = "update_ui_from_dir"
                /\ req'[Len(req')].caller = "perform_live_refresh"
           ELSE req' = req /\ current_dir' = None
        /\ is_focused' = is_focused
        /\ \E t \in timers' :
             /\ t.id = refresh_timer_id'
             /\ t.by = "perform_live_refresh"
             /\ t.delay = IntervalFor(is_focused)
             /\ t.remaining = IntervalFor(is_focused)
    ]_vars

\* The timer fired with a directory displayed: the call it made is on
\* record and the timer it re-armed is pending.
C8_Witness ==
  /\ \E i \in DOMAIN req : req[i].caller = "perform_live_refresh"
  /\ \E t \in timers : t.by = "perform_live_refresh"

(***************************************************************************)
(* C9, as claimed.  A focus-gained event never lengthens the wait: the     *)
(* time left on the timer it arms is at most the time that was left on     *)
(* the timer pending just before the event.                                *)
(***************************************************************************)
C9_FocusInNeverLengthensWait ==
  [][ on_focus_in =>
        \A old \in timers : \A new \in timers' :
          new.remaining <= old.remaining
    ]_vars

(***************************************************************************)
(* C9, amended.  A focus-gained event restarts the wait at the focused     *)
(* interval: the timer pending before the event is cancelled and the one   *)
(* armed is exactly 10,000 ms from firing.  That is never more than the    *)
(* interval the cancelled timer had been armed with, and it is no longer   *)
(* than the time that was left on the cancelled timer whenever at least    *)
(* 10,000 ms were left on it.                                              *)
(***************************************************************************)
C9_FocusInRestartsWait ==
  [][ on_focus_in =>
        /\ timers \cap timers' = {}
        /\ \E new \in timers' :
             /\ timers' = {new}
             /\ new.remaining = focused_refresh_ms
             /\ \A old \in timers :
                  /\ new.remaining <= old.delay
                  /\ old.remaining >= focused_refresh_ms =>
                       new.remaining <= old.remaining
    ]_vars

\* Focus has been regained and the timer armed by that event is pending.
C9_Witness ==
  /\ is_focused
  /\ \E t \in timers :
       t.by = "on_focus_in" /\ t.remaining = focused_refresh_ms

(***************************************************************************)
(* C10, as claimed.  Whenever no directory is displayed, no refresh timer  *)
(* is armed.                                                               *)
(***************************************************************************)
C10_IdleHasNoTimer == current_dir = None => timers = {}

(***************************************************************************)
(* C10, amended.  Whenever no directory is displayed (right after          *)
(* start-up and after Clear included) the refresh timer is armed all the   *)
(* same: exactly one timer is pending, the one whose handle is stored,     *)
(* with the interval of the current focus flag.                            *)
(***************************************************************************)
C10_IdleKeepsTimerArmed ==
  current_dir = None =>
    \E t \in timers :
      /\ timers = {t}
      /\ t.id = refresh_timer_id
      /\ t.delay = IntervalFor(is_focused)

\* Clear has emptied the display of a directory that had been shown, and
\* the timer has been left to run since.
C10_Witness ==
  /\ current_dir = None
  /\ \E i \in DOMAIN req : req[i].sync_calls + req[i].queued_calls = 1
  /\ \E t \in timers : 0 < t.remaining /\ t.remaining < t.delay

\* This step runs the callback: delivered from the queue, or inside an
\* async_get_dir call that found the path cached.
CallbackRan ==
  \/ \E i \in DOMAIN req : req'[i].queued_calls # req[i].queued_calls
  \/ IsCall /\ req'[Len(req')].sync_calls = 1

(***************************************************************************)
(* C11, as claimed.  When the callback sets the displayed directory, the   *)
(* timer pending before is cancelled and a new one is armed, a full        *)
(* interval of the current focus flag from firing.                         *)
(***************************************************************************)
C11_OpeningRearmsTimer ==
  [][ CallbackRan =>
        /\ timers \cap timers' = {}
        /\ \E t \in timers' :
             /\ timers' = {t}
             /\ t.id = refresh_timer_id'
             /\ t.remaining = IntervalFor(is_focused')
    ]_vars

(***************************************************************************)
(* C11, amended.  When the callback sets the displayed directory, the      *)
(* refresh timer is left as it is: the same timer stays pending under the  *)
(* same handle with the time it had left, so the first refresh of the      *)
(* directory comes when that timer fires, at most its interval later.      *)
(* Only when the callback runs inside a timer fire (a refresh that finds   *)
(* the path cached) is the timer re-armed in the same step, by the fire.   *)
(***************************************************************************)
C11_OpeningLeavesTimer ==
  [][ CallbackRan =>
        /\ current_dir' # None
        /\ IF TimerFire
           THEN \E t \in timers' :
                  /\ timers' = {t}
                  /\ t.by = "perform_live_refresh"
                  /\ t.remaining = IntervalFor(is_focused)
           ELSE /\ UNCHANGED <<timers, refresh_timer_id>>
                /\ \A t \in timers' : t.remaining <= t.delay
    ]_vars

\* A directory is displayed and the timer armed at start-up is still the
\* pending one, already due.
C11_Witness ==
  /\ current_dir # None
  /\ \E i \in DOMAIN req : req[i].queued_calls = 1
  /\ \E t \in timers : t.by = "__init__" /\ t.remaining = 0

(***************************************************************************)
(* C12.  From the end of __init__ on, exactly one refresh timer is pending *)
(* in every state, the one whose handle is stored, with between nothing    *)
(* and its whole delay left.  It is never terminal: while time is left on  *)
(* it time can pass, and once it is due it can fire (with a directory      *)
(* displayed, as long as the scans explored are not used up).              *)
(***************************************************************************)
C12_TimerAlwaysPending ==
  \E t \in timers :
    /\ timers = {t}
    /\ refresh_timer_id # NoTimer
    /\ t.id = refresh_timer_id
    /\ t.remaining >= 0 /\ t.remaining <= t.delay
    /\ t.remaining > 0 => ENABLED Tick
    /\ (t.remaining = 0 /\ (current_dir = None \/ Len(req) < MaxScans)) =>
         ENABLED TimerFire

\* The timer fired with no directory displayed and armed its successor,
\* which has since become due in its turn.
C12_Witness ==
  /\ current_dir = None
  /\ \E t \in timers :
       timers = {t} /\ t.by = "perform_live_refresh" /\ t.remaining = 0

(***************************************************************************)
(* C13.  The cache changes only by the cache write of a scan thread, which *)
(* puts that thread's snapshot under that thread's path and changes no     *)
(* other key.  An async_get_dir call, a timer fire, a focus event, a       *)
(* callback and Clear leave the cache as it is.  No step removes a key: a  *)
(* path that is cached stays cached.                                       *)
(***************************************************************************)
C13_CacheChangesOnlyOnStore ==
  [][ /\ \A p \in Paths : cache[p] # None => cache'[p] # None
      /\ cache' # cache =>
           \E i \in DOMAIN req :
             /\ ThreadStepOf(i)
             /\ ~Finished(req[i]) /\ Stmt(req[i]) = "cache_store"
             /\ req[i].dir_obj # None
             /\ cache' = [cache EXCEPT ![req[i].path] = req[i].dir_obj]
      /\ (\/ IsCall \/ CallbackRan \/ TimerFire \/ on_focus_in
          \/ on_focus_out \/ clear_path_entry) => cache' = cache
    ]_vars

\* Both paths have been cached and Clear has since emptied the display.
C13_Witness ==
  /\ current_dir = None /\ drives_state = "NORMAL"
  /\ \A p \in Paths : cache[p] # None

\* The next statement of the thread of call i.
ThreadStep(i) == ThreadScan(i) \/ ThreadStore(i) \/ ThreadPost(i)

(***************************************************************************)
(* C14.  A scan is never cancelled.  A thread that has not finished can    *)
(* always take its next statement, and a queued callback can always be     *)
(* delivered.  A thread that has finished has written the cache, and on    *)
(* the miss path its callback is queued or has run.  No step removes a     *)
(* thread or sets it back; another async_get_dir call and Clear leave      *)
(* every earlier thread and every queued callback as they were; and a      *)
(* delivered callback displays its thread's snapshot whatever was          *)
(* requested or cleared in between.                                        *)
(***************************************************************************)
C14_ScanNeverCancelled ==
  /\ [](/\ \A i \in DOMAIN req :
             /\ ~Finished(req[i]) => ENABLED ThreadStep(i)
             /\ Finished(req[i]) =>
                  /\ Stored(i)
                  /\ cache[req[i].path] # None
                  /\ req[i].target = "scan_and_callback" =>
                       (Queued(i) \/ req[i].queued_calls = 1)
        /\ uiQueue # <<>> => ENABLED Deliver)
  /\ [][ \A i \in DOMAIN req :
           /\ i \in DOMAIN req'
           /\ req'[i].pc >= req[i].pc
           /\ req'[i].path = req[i].path
           /\ req'[i].target = req[i].target
           /\ (IsCall \/ clear_path_entry) =>
                (req'[i] = req[i] /\ uiQueue' = uiQueue)
           /\ req'[i].queued_calls # req[i].queued_calls =>
                (req[i].dir_obj # None /\ current_dir' = req[i].dir_obj)
       ]_vars

\* Clear was pressed while a scan was in flight; the scan went on, and its
\* callback has put the directory back on display.
C14_Witness ==
  /\ drives_state = "NORMAL"
  /\ current_dir # None
  /\ cache[current_dir.path] # None
  /\ \E i \in DOMAIN req : req[i].queued_calls = 1 /\ current_dir.id = i

(***************************************************************************)
(* C15.  A scan that is slow or never returns holds up nothing but its own *)
(* thread.  Whatever the threads in flight are doing, the focus handlers   *)
(* and Clear can run, a due timer can fire, a queued callback can be       *)
(* delivered, a new request can be made for every directory (as long as    *)
(* the scans explored are not used up) and every other unfinished thread   *)
(* can take its next statement.  An async_get_dir call returns with its    *)
(* own thread not yet started on its first statement and with every other  *)
(* thread where it was.                                                    *)
(***************************************************************************)
C15_HungScanBlocksOnlyItself ==
  /\ [](/\ ENABLED on_focus_in
        /\ ENABLED on_focus_out
        /\ ENABLED clear_path_entry
        /\ \A t \in timers :
             (t.remaining = 0 /\ (current_dir = None \/ Len(req) < MaxScans))
               => ENABLED TimerFire
        /\ uiQueue # <<>> => ENABLED Deliver
        /\ Len(req) < MaxScans =>
             \A p \in Paths : isdir(p) => ENABLED browse_to_path(p)
        /\ \A i \in DOMAIN req : ~Finished(req[i]) => ENABLED ThreadStep(i))
  /\ [][ IsCall =>
           /\ req'[Len(req')].pc = 1
           /\ req'[Len(req')].dir_obj = None
           /\ SubSeq(req', 1, Len(req)) = req
       ]_vars

\* The first scan has not returned from scan_dir; meanwhile focus was lost,
\* a second request was made and its callback delivered.
C15_Witness ==
  /\ Len(req) >= 2
  /\ req[1].pc = 1
  /\ req[2].queued_calls = 1
  /\ current_dir # None /\ current_dir.id = 2
  /\ ~is_focused

(***************************************************************************)
(* C16.  A statement of a scan thread changes nothing shared but the cache *)
(* (its write) and the callback queue (its after): the displayed           *)
(* directory, the listbox and its binding, the focus flag, the timer       *)
(* handle and the pending timers stay as they were, and so do the other    *)
(* threads.  A step that changes the displayed directory, the focus flag   *)
(* or the timer handle is a step of the main loop: no thread moves in it.  *)
(***************************************************************************)
C16_ThreadsTouchOnlyCacheAndQueue ==
  [][ /\ \A i \in DOMAIN req :
           ThreadStepOf(i) =>
             /\ UNCHANGED <<current_dir, bound_dir, subdirs_state,
                            drives_state, is_focused, refresh_timer_id,
                            timers>>
             /\ \A j \in DOMAIN req : j # i => req'[j] = req[j]
             /\ Len(req') = Len(req)
             /\ cache' # cache => Stmt(req[i]) = "cache_store"
             /\ uiQueue' # uiQueue =>
                  /\ Stmt(req[i]) = "after"
                  /\ Len(uiQueue') = Len(uiQueue) + 1
      /\ (\/ current_dir' # current_dir
          \/ is_focused' # is_focused
          \/ refresh_timer_id' # refresh_timer_id) =>
           \A i \in DOMAIN req : req'[i].pc = req[i].pc
    ]_vars

\* A miss thread has run to its end with the focus lost meanwhile: the
\* snapshot is cached and its callback queued, and nothing is displayed.
C16_Witness ==
  /\ current_dir = None /\ bound_dir = None /\ ~is_focused
  /\ \E i \in DOMAIN req :
       /\ req[i].target = "scan_and_callback"
       /\ Finished(req[i]) /\ Queued(i)
       /\ cache[req[i].path] # None

\* Every Dir the program holds: in the cache, on display, bound to the
\* listbox, in a queued callback or in a thread's local variable.
HeldDirs ==
  ({cache[p] : p \in Paths} \cup {current_dir, bound_dir}
     \cup {uiQueue[k].dir_obj : k \in DOMAIN uiQueue}
     \cup {req[i].dir_obj : i \in DOMAIN req}) \ {None}

(***************************************************************************)
(* C17.  Every Dir held anywhere is the whole result of one scan_dir call: *)
(* path, metadata, subdirs and files are those which the scan of the       *)
(* thread that built it returned for its own path, and a cache entry is    *)
(* filed under its own path.  Nothing alters a Dir once built: a thread's  *)
(* cache write makes the entry that thread's own Dir, whole, whatever was  *)
(* there before; a thread's Dir never changes once scan_dir has returned   *)
(* it; queued Dirs do not change while they wait; and the displayed Dir    *)
(* changes only by being replaced with None, with the cached Dir or with   *)
(* the Dir of the callback being delivered.                                *)
(***************************************************************************)
C17_SnapshotsAreWholeScans ==
  /\ [](/\ \A d \in HeldDirs :
             /\ d.id \in DOMAIN req
             /\ req[d.id].path = d.path
             /\ req[d.id].dir_obj = d
             /\ d = scan_dir(d.path, fs[d.path], d.id)
        /\ \A p \in Paths : cache[p] # None => cache[p].path = p)
  /\ [][ /\ \A i \in DOMAIN req :
             /\ req[i].dir_obj # None => req'[i].dir_obj = req[i].dir_obj
             /\ (/\ ThreadStepOf(i)
                 /\ ~Finished(req[i]) /\ Stmt(req[i]) = "cache_store") =>
                  /\ cache'[req[i].path] = req[i].dir_obj
                  /\ \A p \in Paths : p # req[i].path => cache'[p] = cache[p]
         /\ \/ uiQueue' = uiQueue
            \/ uiQueue # <<>> /\ uiQueue' = Tail(uiQueue)
            \/ /\ Len(uiQueue') = Len(uiQueue) + 1
               /\ SubSeq(uiQueue', 1, Len(uiQueue)) = uiQueue
         /\ current_dir' # current_dir =>
              \/ current_dir' = None
              \/ IsCall /\ current_dir' = cache[req'[Len(req')].path]
              \/ uiQueue # <<>> /\ current_dir' = Head(uiQueue).dir_obj
       ]_vars

\* A second scan of a path has replaced the cache entry while the Dir of
\* the first scan is still on display, unaltered.
C17_Witness ==
  /\ current_dir # None
  /\ cache[current_dir.path] # None
  /\ cache[current_dir.path].id > current_dir.id
  /\ current_dir = scan_dir(current_dir.path, fs[current_dir.path],
                            current_dir.id)

(***************************************************************************)
(* C18.  scan_dir returns a Dir whatever it finds: a thread about to scan  *)
(* can always take that step, and once past it holds a Dir for its path.   *)
(* Where os.stat or os.scandir raises for the path, the Dir has empty      *)
(* subdirs and files and its metadata is the error variant, carrying the   *)
(* exception's text.  The metadata of every Dir is exactly one of the two  *)
(* variants: the four fields count_subdirs, count_files, created and       *)
(* modified, or the single field error; and an error Dir has both lists   *)
(* empty.                                                                  *)
(***************************************************************************)
C18_ScanNeverRaises ==
  /\ \A i \in DOMAIN req :
       /\ req[i].pc = 1 => ENABLED ThreadScan(i)
       /\ req[i].pc > 1 =>
            (req[i].dir_obj # None /\ req[i].dir_obj.path = req[i].path)
  /\ \A d \in HeldDirs :
       /\ \/ DOMAIN d.metadata = {"error"}
          \/ DOMAIN d.metadata =
               {"count_subdirs", "count_files", "created", "modified"}
       /\ "error" \in DOMAIN d.metadata =>
            /\ d.subdirs = EmptyDict
            /\ d.files = EmptyDict
       /\ fs[d.path].error # "" =>
            /\ d.metadata = [error |-> fs[d.path].error]
            /\ d.subdirs = EmptyDict
            /\ d.files = EmptyDict
       /\ "error" \notin DOMAIN d.metadata =>
            /\ fs[d.path].error = ""
            /\ d.metadata.count_subdirs \in Nat
            /\ d.metadata.count_files \in Nat
            /\ d.metadata.created = ctime(fs[d.path].birthtime)
            /\ d.metadata.modified = ctime(fs[d.path].mtime)

\* The drive does not exist: the scan has returned the error Dir, and it
\* has been cached and displayed.
C18_Witness ==
  /\ current_dir # None
  /\ fs[current_dir.path].error = "FileNotFoundError"
  /\ current_dir.metadata = [error |-> "FileNotFoundError"]
  /\ cache[current_dir.path] = current_dir

\* The children that are directories, and those that are regular files, in
\* iteration order.
DirsOf(entries) == SelectSeq(entries, LAMBDA e : e.kind = "dir")

FilesOf(entries) == SelectSeq(entries, LAMBDA e : e.kind = "file")

\* The Dirs of scans that succeeded.
ScannedDirs == {d \in HeldDirs : "error" \notin DOMAIN d.metadata}

\* The two lists of d hold the directory children and the regular-file
\* children, each numbered from 0 in iteration order; every child is in
\* exactly one list, or in none when it is neither; the counts in the
\* metadata are the lengths of the lists.
ListsInOrder(d) ==
  LET entries == fs[d.path].entries
      ds == DirsOf(entries)
      fl == FilesOf(entries)
  IN  /\ DOMAIN d.subdirs = 0 .. Len(ds) - 1
      /\ \A k \in DOMAIN d.subdirs : d.subdirs[k] = entry_name(ds[k + 1].name)
      /\ DOMAIN d.files = 0 .. Len(fl) - 1
      /\ \A k \in DOMAIN d.files :
           /\ d.files[k].path = join(d.path, entry_name(fl[k + 1].name))
           /\ d.files[k].size = fl[k + 1].size
           /\ d.files[k].mimetype = get_mimetype(fl[k + 1].name)
      /\ \A j \in DOMAIN entries :
           LET name == entry_name(entries[j].name)
               in_subdirs == {k \in DOMAIN d.subdirs : d.subdirs[k] = name}
               in_files == {k \in DOMAIN d.files :
                              d.files[k].path = join(d.path, name)}
           IN  /\ entries[j].kind = "dir" =>
                    Cardinality(in_subdirs) = 1 /\ in_files = {}
               /\ entries[j].kind = "file" =>
                    Cardinality(in_files) = 1 /\ in_subdirs = {}
               /\ entries[j].kind \notin {"dir", "file"} =>
                    in_subdirs = {} /\ in_files = {}
      /\ d.metadata.count_subdirs = Cardinality(DOMAIN d.subdirs)
      /\ d.metadata.count_files = Cardinality(DOMAIN d.files)

(***************************************************************************)
(* C19, as claimed.  In the Dir of a successful scan each child is in      *)
(* exactly one list or skipped, the lists are numbered from 0 in iteration *)
(* order, the counts equal the lengths of the lists, and the two lists     *)
(* together have as many elements as the directory has entries.            *)
(***************************************************************************)
C19_ListsCoverEveryEntry ==
  \A d \in ScannedDirs :
    /\ ListsInOrder(d)
    /\ Cardinality(DOMAIN d.subdirs) + Cardinality(DOMAIN d.files)
         = Len(fs[d.path].entries)

(***************************************************************************)
(* C19, amended.  In the Dir of a successful scan each child is in exactly *)
(* one list or skipped, the lists are numbered from 0 in iteration order,  *)
(* the counts equal the lengths of the lists, and the two lists together   *)
(* have as many elements as the directory has entries that are             *)
(* directories or regular files: that is the number of entries less the    *)
(* skipped ones, and the number of entries only if none was skipped.       *)
(***************************************************************************)
C19_ListsCoverDirsAndFiles ==
  \A d \in ScannedDirs :
    LET entries == fs[d.path].entries
        skipped == {j \in DOMAIN entries :
                      entries[j].kind \notin {"dir", "file"}}
    IN  /\ ListsInOrder(d)
        /\ Cardinality(DOMAIN d.subdirs) + Cardinality(DOMAIN d.files)
             = Len(entries) - Cardinality(skipped)
        /\ skipped = {} <=>
             Cardinality(DOMAIN d.subdirs) + Cardinality(DOMAIN d.files)
               = Len(entries)

\* A directory with a subdirectory and an entry that is neither directory
\* nor file has been scanned and displayed: one element for two entries.
C19_Witness ==
  /\ current_dir \in ScannedDirs
  /\ \E j, k \in DOMAIN fs[current_dir.path].entries :
       /\ fs[current_dir.path].entries[j].kind = "dir"
       /\ fs[current_dir.path].entries[k].kind = "other"
  /\ current_dir.metadata.count_subdirs = 1
  /\ current_dir.metadata.count_files = 0

\* This step is a handler that calls async_get_dir: a navigation handler, or
\* a timer fire with a directory displayed.
CallingHandler ==
  \/ \E d \in Drives : on_drive_select(d)
  \/ \E k \in 0 .. 1 : on_item_select(k)
  \/ \E p \in Paths : browse_to_path(p)
  \/ TimerFire /\ current_dir # None

(***************************************************************************)
(* C20.  Threads are started by async_get_dir calls and by nothing else,   *)
(* one thread per call: a handler that makes the call starts exactly one   *)
(* thread for the path asked for (scan_and_callback when the path is not   *)
(* cached, scan_and_update_cache when it is, since a call that finds the   *)
(* path cached needs a fresh scan too, to refresh the entry); every other  *)
(* step, a timer fire with nothing displayed among them, starts none.  So  *)
(* the threads started are as many as the calls made.  No step removes a   *)
(* thread or sets it back, and a thread that has not finished can always   *)
(* take its next statement.                                                *)
(***************************************************************************)
C20_OneThreadPerCall ==
  /\ [](\A i \in DOMAIN req : ~Finished(req[i]) => ENABLED ThreadStep(i))
  /\ [][ /\ CallingHandler =>
             /\ IsCall
             /\ SubSeq(req', 1, Len(req)) = req
             /\ req'[Len(req')].pc = 1
             /\ req'[Len(req')].target =
                  IF cache[req'[Len(req')].path] # None
                  THEN "scan_and_update_cache" ELSE "scan_and_callback"
         /\ ~CallingHandler => Len(req') = Len(req)
         /\ (TimerFire /\ current_dir = None) => req' = req
         /\ \A i \in DOMAIN req :
              /\ i \in DOMAIN req'
              /\ req'[i].pc >= req[i].pc
              /\ req'[i].pc <= req[i].pc + 1
       ]_vars

\* Two calls, the second a refresh made by a timer fire that found the
\* path cached: two threads, both run to their end.
C20_Witness ==
  /\ Len(req) = 2
  /\ req[2].caller = "perform_live_refresh"
  /\ req[2].target = "scan_and_update_cache"
  /\ \A i \in DOMAIN req : Finished(req[i])

(***************************************************************************)
(* C21.  The refresh a timer fire starts updates the cache and the display *)
(* with the result of the scan that fire started: once the thread of the   *)
(* fire's call has finished, with no later call made, no other thread      *)
(* still running, no callback waiting, and the fire's path still on        *)
(* display, the cache entry and the displayed Dir are both the Dir that    *)
(* thread built.                                                           *)
(***************************************************************************)
C21_RefreshUpdatesCacheAndDisplay ==
  \A i \in DOMAIN req :
    (/\ req[i].caller = "perform_live_refresh"
     /\ i = Len(req)
     /\ \A j \in DOMAIN req : Finished(req[j])
     /\ uiQueue = <<>>
     /\ last_write[req[i].path] = i
     /\ current_dir # None
     /\ current_dir.path = req[i].path) =>
       /\ cache[req[i].path] = req[i].dir_obj
       /\ current_dir = req[i].dir_obj

(***************************************************************************)
(* C22.  Whenever a directory is displayed, its path is in the cache.  So  *)
(* the async_get_dir call of a timer fire always finds the path cached: it *)
(* starts scan_and_update_cache, the callback runs inside the timer-fire   *)
(* step, once, on the cached Dir, and nothing is queued for it.            *)
(***************************************************************************)
C22_DisplayedIsCached ==
  /\ [](current_dir # None => cache[current_dir.path] # None)
  /\ [][ (TimerFire /\ current_dir # None) =>
           /\ cache[current_dir.path] # None
           /\ IsCall
           /\ req'[Len(req')].path = current_dir.path
           /\ req'[Len(req')].target = "scan_and_update_cache"
           /\ req'[Len(req')].sync_calls = 1
           /\ current_dir' = cache[current_dir.path]
           /\ uiQueue' = uiQueue
       ]_vars

\* The timer fired while the Dir of a failed scan was displayed: the call
\* found the path cached and ran the callback itself.
C22_Witness ==
  /\ current_dir # None
  /\ "error" \in DOMAIN current_dir.metadata
  /\ \E i \in DOMAIN req :
       /\ req[i].caller = "perform_live_refresh"
       /\ req[i].path = current_dir.path
       /\ req[i].sync_calls = 1

\* The calls made by the user's navigation: drive selection, subdirectory
\* selection and typed path.
UserCalls ==
  {i \in DOMAIN req :
     req[i].caller \in {"on_drive_select", "on_item_select", "browse_to_path"}}

LastUserCall == CHOOSE i \in UserCalls : \A j \in UserCalls : j <= i

(***************************************************************************)
(* C23.  Whenever every thread has finished and no callback is waiting,    *)
(* the directory displayed is the one the user asked for last: the         *)
(* delivery of an older request's result never replaces the display of a   *)
(* newer request.                                                          *)
(***************************************************************************)
C23_DisplayIsLatestRequest ==
  (/\ UserCalls # {}
   /\ \A i \in DOMAIN req : Finished(req[i])
   /\ uiQueue = <<>>
   /\ current_dir # None) =>
     current_dir.path = req[LastUserCall].path

(***************************************************************************)
(* C24.  After Clear nothing is displayed until the user navigates again.  *)
(* The drives listbox is enabled from Clear (and from start-up) until the  *)
(* next drive selection or typed path, and a subdirectory can be selected  *)
(* only from a displayed directory; so while the drives listbox is enabled *)
(* no directory is displayed, no step but a navigation request puts one on *)
(* display, and a timer fire makes no call.                                *)
(***************************************************************************)
C24_ClearedStaysCleared ==
  /\ [](drives_state = "NORMAL" => current_dir = None)
  /\ [][ /\ (drives_state = "NORMAL" /\ current_dir = None
                /\ current_dir' # None) =>
               \E i \in UserCalls' : i \notin UserCalls
         /\ (drives_state = "NORMAL" /\ TimerFire) => req' = req
       ]_vars

\* The children of a listing whose stat() raises, by position.
FailingChildren(listing) ==
  {j \in DOMAIN listing.entries :
     listing.entries[j].kind = "file" /\ listing.entries[j].stat_error # ""}

(***************************************************************************)
(* C25.  If stat() raises for a child of a directory that os.stat and      *)
(* os.scandir read without raising, the scan yields the error Dir: the     *)
(* metadata is the error variant carrying the exception of the first such  *)
(* child, and subdirs and files are empty, whatever was collected before.  *)
(* Conversely a Dir with lists and counts comes only from a directory none *)
(* of whose children failed.  This holds of every Dir held anywhere: in a  *)
(* thread, in the cache, in a queued callback and on display.              *)
(***************************************************************************)
C25_ChildFailureFailsScan ==
  \A d \in HeldDirs :
    LET listing == fs[d.path]
        failing == FailingChildren(listing)
    IN  /\ (listing.error = "" /\ failing # {}) =>
             LET first == CHOOSE j \in failing : \A k \in failing : j <= k
             IN  /\ d.metadata = [error |-> listing.entries[first].stat_error]
                 /\ d.subdirs = EmptyDict
                 /\ d.files = EmptyDict
        /\ "error" \notin DOMAIN d.metadata => failing = {}
        /\ (d.subdirs # EmptyDict \/ d.files # EmptyDict) => failing = {}

\* A subdirectory was listed before a file whose stat() raised: the Dir
\* cached and displayed is the error Dir, with nothing in its lists.
C25_Witness ==
  /\ current_dir # None
  /\ cache[current_dir.path] = current_dir
  /\ fs[current_dir.path].error = ""
  /\ Len(fs[current_dir.path].entries) = 2
  /\ fs[current_dir.path].entries[1].kind = "dir"
  /\ FailingChildren(fs[current_dir.path]) = {2}
  /\ current_dir.metadata = [error |-> "PermissionError"]
  /\ current_dir.subdirs = EmptyDict

====
